---- MODULE Spec2Model ----
(***************************************************************************)
(* Model of the schema migration runner of clash_deck_builder:             *)
(* database/migrations/migrate.py (MigrationRunner).                       *)
(*                                                                         *)
(* File names, versions and names are sequences of one-character strings,  *)
(* so that the parsing, formatting and ordering the runner does on them    *)
(* are computed character by character, as the Python code computes them.  *)
(* The database is modelled as the runner uses it: statements executed     *)
(* through a cursor join the connection's open transaction, conn.commit()  *)
(* makes the transaction durable and conn.rollback() (or losing the        *)
(* connection) discards it.                                                *)
(***************************************************************************)
EXTENDS Integers, Sequences, FiniteSets, TLC

(***************************************************************************)
(* Characters and Python's str operations                                  *)
(***************************************************************************)

\* The characters used by the file names of the model, in code point order.
Ascii ==
    << " ", ".", "0", "1", "2", "3", "4", "5", "6", "7", "8", "9",
       "A", "B", "C", "D", "K", "L", "O", "Q", "R", "S", "X", "_",
       "a", "b", "c", "d", "k", "l", "o", "q", "r", "s", "x" >>

UpperLetters == << "A", "B", "C", "D", "K", "L", "O", "Q", "R", "S", "X" >>

LowerLetters == << "a", "b", "c", "d", "k", "l", "o", "q", "r", "s", "x" >>

Code(c) == CHOOSE i \in 1..Len(Ascii) : Ascii[i] = c

\* str.isdigit() of one character
IsDigitChar(c) == c \in {"0", "1", "2", "3", "4", "5", "6", "7", "8", "9"}

IsUpperChar(c) == \E i \in 1..Len(UpperLetters) : UpperLetters[i] = c

IsLowerChar(c) == \E i \in 1..Len(LowerLetters) : LowerLetters[i] = c

IsCased(c) == IsUpperChar(c) \/ IsLowerChar(c)

LowerChar(c) ==
    IF IsUpperChar(c)
    THEN LowerLetters[CHOOSE i \in 1..Len(UpperLetters) : UpperLetters[i] = c]
    ELSE c

UpperChar(c) ==
    IF IsLowerChar(c)
    THEN UpperLetters[CHOOSE i \in 1..Len(LowerLetters) : LowerLetters[i] = c]
    ELSE c

\* str.isdigit(): non-empty and every character a digit
IsDigit(s) == Len(s) > 0 /\ \A i \in 1..Len(s) : IsDigitChar(s[i])

\* str.lower()
Lower(s) == [i \in 1..Len(s) |-> LowerChar(s[i])]

\* str.title(): a cased character is upper-cased when the character before
\* it is not cased (or there is none), and lower-cased otherwise.
Title(s) ==
    [i \in 1..Len(s) |->
        IF i > 1 /\ IsCased(s[i - 1]) THEN LowerChar(s[i]) ELSE UpperChar(s[i])]

\* s[from:] starts with p
StartsWithAt(s, p, from) ==
    /\ from + Len(p) - 1 <= Len(s)
    /\ \A i \in 1..Len(p) : s[from + i - 1] = p[i]

\* str.endswith(suffix)
EndsWith(s, suffix) ==
    /\ Len(suffix) <= Len(s)
    /\ StartsWithAt(s, suffix, Len(s) - Len(suffix) + 1)

RECURSIVE ReplaceFrom(_, _, _, _)
ReplaceFrom(s, old, new, from) ==
    IF from > Len(s) THEN << >>
    ELSE IF StartsWithAt(s, old, from)
         THEN new \o ReplaceFrom(s, old, new, from + Len(old))
         ELSE << s[from] >> \o ReplaceFrom(s, old, new, from + 1)

\* str.replace(old, new): every non-overlapping occurrence, left to right
Replace(s, old, new) == ReplaceFrom(s, old, new, 1)

RECURSIVE SplitFrom(_, _, _, _, _)
SplitFrom(s, sep, maxsplit, from, cur) ==
    IF from > Len(s) THEN << cur >>
    ELSE IF maxsplit > 0 /\ s[from] = sep
         THEN << cur >> \o SplitFrom(s, sep, maxsplit - 1, from + 1, << >>)
         ELSE SplitFrom(s, sep, maxsplit, from + 1, Append(cur, s[from]))

\* str.split(sep, maxsplit) for a one-character separator
Split(s, sep, maxsplit) == SplitFrom(s, sep, maxsplit, 1, << >>)

RECURSIVE StrLessFrom(_, _, _)
StrLessFrom(a, b, i) ==
    IF i > Len(a) THEN i <= Len(b)
    ELSE IF i > Len(b) THEN FALSE
    ELSE IF a[i] = b[i] THEN StrLessFrom(a, b, i + 1)
    ELSE Code(a[i]) < Code(b[i])

\* a < b for two str values: lexicographic by code point
StrLess(a, b) == StrLessFrom(a, b, 1)

\* sorted(S) for a set of str values
RECURSIVE Sorted(_)
Sorted(S) ==
    IF S = {} THEN << >>
    ELSE LET m == CHOOSE x \in S : \A y \in S \ {x} : StrLess(x, y)
         IN << m >> \o Sorted(S \ {m})

Range(s) == {s[i] : i \in 1..Len(s)}

(***************************************************************************)
(* File names                                                              *)
(***************************************************************************)

SqlExt == << ".", "s", "q", "l" >>

RollbackExt == << ".", "r", "o", "l", "l", "b", "a", "c", "k" >> \o SqlExt

Underscore == << "_" >>

\* The time part shared by the versions of the model: 120000
TimePart == << "1", "2", "0", "0", "0", "0" >>

\* The versions 20240101_120000, 20240102_120000 and 20240103_120000
V1 == << "2", "0", "2", "4", "0", "1", "0", "1" >> \o Underscore \o TimePart

V2 == << "2", "0", "2", "4", "0", "1", "0", "2" >> \o Underscore \o TimePart

V3 == << "2", "0", "2", "4", "0", "1", "0", "3" >> \o Underscore \o TimePart

\* 20240101_120000_a.sql
F1 == V1 \o Underscore \o << "a" >> \o SqlExt

\* 20240102_120000_b.sql
F2 == V2 \o Underscore \o << "b" >> \o SqlExt

\* 20240102_120000_X.sql: a second file with the version of F2, its
\* description in upper case
F2x == V2 \o Underscore \o << "X" >> \o SqlExt

\* 20240103_120000_c.sql
F3 == V3 \o Underscore \o << "c" >> \o SqlExt

\* 2024.sql0103_120000_c.sql: ".sql" also inside the name
F3w ==
    << "2", "0", "2", "4" >> \o SqlExt \o << "0", "1", "0", "3" >>
        \o Underscore \o TimePart \o Underscore \o << "c" >> \o SqlExt

\* 20240102_120000_b.rollback.sql and 20240103_120000_c.rollback.sql
R2 == V2 \o Underscore \o << "b" >> \o RollbackExt

R3 == V3 \o Underscore \o << "c" >> \o RollbackExt

\* The file names the migrations directory may hold
FilePool == {F1, F2, F2x, F3, F3w, R2, R3}

\* The number of statements sql_content.split(';') yields for each file
StatementCount(f) ==
    CASE f = F1 -> 2 [] f = F2 -> 1 [] f = F2x -> 1 [] f = F3 -> 2
      [] f = F3w -> 1 [] f = R2 -> 1 [] f = R3 -> 2 [] OTHER -> 0

\* A target_version argument: None, or a str
NoTarget == [given |-> FALSE, value |-> << >>]

Target(v) == [given |-> TRUE, value |-> v]

\* The target_version arguments of run_migrations: None, "" and the versions
Targets == {NoTarget, Target(<< >>), Target(V1), Target(V2), Target(V3)}

\* The target_version arguments of rollback_migration (a str)
RollbackTargets == {Target(<< >>), Target(V1), Target(V2)}

(***************************************************************************)
(* MigrationRunner: discovery                                              *)
(***************************************************************************)

\* migrations_dir.glob("*.sql")
GlobSql(dir) == {f \in dir : EndsWith(f, SqlExt)}

IsValidMigrationFilename(filename) ==
    LET parts == Split(Replace(filename, SqlExt, << >>), "_", 2)
    IN  /\ Len(parts) >= 3
        /\ Len(parts[1]) = 8 /\ IsDigit(parts[1])
        /\ Len(parts[2]) = 6 /\ IsDigit(parts[2])

\* "Unnamed Migration"
UnnamedMigration ==
    << "U", "n", "n", "a", "m", "e", "d", " ",
       "M", "i", "g", "r", "a", "t", "i", "o", "n" >>

\* (version, name) of a file name
ParseMigrationFilename(filename) ==
    LET parts == Split(Replace(filename, SqlExt, << >>), "_", 2)
    IN  [version |-> parts[1] \o Underscore \o parts[2],
         name |-> IF Len(parts) > 2
                  THEN Title(Replace(parts[3], Underscore, << " " >>))
                  ELSE UnnamedMigration]

\* The body of the loop of _discover_migration_files for one path of
\* glob("*.sql"): no record for a rollback file or an invalid name, else the
\* Migration record
MigrationOfFile(filename) ==
    IF EndsWith(filename, RollbackExt) THEN << >>
    ELSE IF ~IsValidMigrationFilename(filename) THEN << >>
    ELSE LET p == ParseMigrationFilename(filename)
         IN << [version |-> p.version, name |-> p.name,
                file_path |-> filename] >>

\* MigrationOfFile of each file name of the pool
MigrationTable == [f \in FilePool |-> MigrationOfFile(f)]

\* sorted() of the file names of the pool; sorted() of a directory is this
\* order restricted to its files
SortedPool == Sorted(FilePool)

SortedPaths(paths) ==
    LET Listed(f) == f \in paths
    IN SelectSeq(SortedPool, Listed)

RECURSIVE MigrationsOf(_)
MigrationsOf(paths) ==
    IF paths = << >> THEN << >>
    ELSE MigrationTable[Head(paths)] \o MigrationsOf(Tail(paths))

\* The Migration records of the directory, in sorted(glob("*.sql")) order
DiscoverMigrationFiles(dir) == MigrationsOf(SortedPaths(GlobSql(dir)))

(***************************************************************************)
(* State                                                                   *)
(***************************************************************************)

\* The runner processes. Spec runs the single runner the tool is designed
\* for.
Runners == {"r1", "r2"}

\* Calls of run_migrations and rollback_migration in one behaviour
MaxCalls == 2

\* Files added to or removed from the migrations directory in one behaviour
MaxFileChanges == 1

\* Invocations of the container wrapper in one behaviour
MaxInvocations == 2

\* Calls of execute_script in one behaviour
MaxScripts == 3

\* Statements of a script given to execute_script
MaxStatements == 3

\* Calls of the health check's check_migration_status in one behaviour
MaxHealthChecks == 1

\* MIGRATION_RETRY_COUNT = int(os.getenv('MIGRATION_RETRY_COUNT', '3'))
MIGRATION_RETRY_COUNT == 3

\* def wait_for_database_ready(max_attempts=30, delay=2)
max_attempts == 30

\* wait_for_database_ready(max_attempts=10, delay=1) of the command status
status_max_attempts == 10

\* The exit status of argparse's parser.error()
ARGPARSE_ERROR == 2

VARIABLES
    files,        \* the file names in the migrations directory
    fileChanges,  \* how many times the directory was changed
    tableExists,  \* whether the schema_migrations table exists
    ledger,       \* the committed rows (version, name) of schema_migrations
    dbLog,        \* the committed transactions, oldest first
    calls,        \* calls started so far
    pc,           \* where each runner is in its call
    call,         \* the number of each runner's current call
    target,       \* its target_version argument
    before,       \* the ledger when its call started
    pending,      \* pending_migrations, or migrations_to_rollback
    idx,          \* the position of its loop in that list
    stmt,         \* statements of the current script executed so far
    tx,           \* the operations of its connection's open transaction
    result,       \* the results dictionary of its call
    log,          \* the log lines of its call
    wpc,          \* where the container wrapper's main() is
    invocations,  \* invocations of the wrapper so far
    waitAttempt,  \* attempt of wait_for_database_ready
    attempt,      \* attempt of run_container_migrations
    outcomes,     \* how each attempt of this invocation ended
    sleeps,       \* calls of time.sleep in run_container_migrations
    success,      \* what run_container_migrations returned
    markers,      \* the marker files that exist
    written,      \* the marker files this invocation wrote
    exitCode,     \* the status the wrapper process exited with
    healthChecks, \* calls of check_migration_status so far
    health,       \* what check_migration_status returned last
    command,      \* the program and the arguments of the running process
    probeLog,     \* whether each probe of wait_for_database_ready succeeded
    spc,          \* where execute_script is
    scripts,      \* calls of execute_script so far
    script,       \* the number of statements of the script it executes
    sdone,        \* how many of them the cursor has executed
    stx           \* the open transaction of the pooled connection

\* The state of the container wrapper and of the health check
wrapVars ==
    << wpc, invocations, waitAttempt, attempt, outcomes, sleeps, success,
       markers, written, exitCode, healthChecks, health >>

\* The command line of a process started from a shell, and the probes of
\* its wait_for_database_ready
cliVars == << command, probeLog >>

\* The state of DatabaseManager.execute_script and of its connection
scriptVars == << spc, scripts, script, sdone, stx >>

\* What the runner leaves alone
otherVars == << wrapVars, cliVars, scriptVars >>

vars ==
    << files, fileChanges, tableExists, ledger, dbLog, calls, pc, call,
       target, before, pending, idx, stmt, tx, result, log, wrapVars,
       cliVars, scriptVars >>

dbVars == << tableExists, ledger, dbLog >>

fsVars == << files, fileChanges >>

(***************************************************************************)
(* The database                                                            *)
(***************************************************************************)

StatementOp(f, k) == [op |-> "stmt", file |-> f, k |-> k, version |-> << >>,
                      name |-> << >>]

InsertOp(v, n) == [op |-> "insert", file |-> << >>, k |-> 0, version |-> v,
                   name |-> n]

\* DeleteOp of a rollback that writes a ledger row where it should remove one
DeleteOpInserting(v) == InsertOp(v, << >>)

DeleteOp(v) == [op |-> "delete", file |-> << >>, k |-> 0, version |-> v,
                name |-> << >>]

\* The rows of schema_migrations after the operations ops
ApplyLedger(rows, ops) ==
    LET F[i \in 0..Len(ops)] ==
            IF i = 0 THEN rows
            ELSE IF ops[i].op = "insert"
                 THEN Append(F[i - 1],
                             [version |-> ops[i].version, name |-> ops[i].name])
            ELSE IF ops[i].op = "delete"
                 THEN LET Keep(row) == row.version # ops[i].version
                      IN SelectSeq(F[i - 1], Keep)
            ELSE F[i - 1]
    IN F[Len(ops)]

VersionsOf(rows) == {rows[i].version : i \in 1..Len(rows)}

\* DuplicateKey of a table without the primary key
DuplicateKeyNever(rows, version) == FALSE

\* version VARCHAR(255) PRIMARY KEY: an INSERT of a version the table (as the
\* inserting connection sees it) already holds raises
DuplicateKey(rows, version) == version \in VersionsOf(rows)

\* The rows of the table as the connection of runner r sees them
LedgerView(r) == ApplyLedger(ledger, tx[r])

(***************************************************************************)
(* Results and log lines                                                   *)
(***************************************************************************)

NoError == [type |-> "none", version |-> << >>]

\* f"Migration {migration.version} failed: {e}"
MigrationFailed(v) == [type |-> "migration", version |-> v]

\* f"Rollback failed for {version}: {e}"
RollbackFailed(v) == [type |-> "rollback", version |-> v]

\* str(e) of an exception of the driver or of the connection
OtherError == [type |-> "other", version |-> << >>]

NoResult == [kind |-> "none"]

NewRunResult ==
    [kind |-> "migrate", applied_migrations |-> << >>,
     skipped_migrations |-> << >>, success |-> TRUE, error |-> NoError]

NewRollbackResult ==
    [kind |-> "rollback", rolled_back_migrations |-> << >>,
     success |-> TRUE, error |-> NoError]

\* logger.info(f"Applying migration: {migration}")
Applying(m) == [line |-> "applying", version |-> m.version]

\* logger.warning(f"No rollback script found for {version}: ...")
NoRollbackScript(v) == [line |-> "no_rollback_script", version |-> v]

\* logger.info(f"Rolled back migration {version}")
RolledBack(v) == [line |-> "rolled_back", version |-> v]

\* The wrapper process has not exited
NoExit == -1

Idle(r) == pc[r] \in {"idle", "done"}

Running(r) == ~Idle(r)

(***************************************************************************)
(* MigrationRunner.run_migrations                                          *)
(***************************************************************************)

\* `if target_version and migration.version > target_version`
BeyondTarget(T, version) ==
    T.given /\ T.value # << >> /\ StrLess(T.value, version)

\* PendingMigrations without the filter on the applied versions
PendingMigrationsUnfiltered(available, applied) == available

\* [m for m in available_migrations if m.version not in applied_migrations]
PendingMigrations(available, applied) ==
    LET NotApplied(m) == m.version \notin applied
    IN SelectSeq(available, NotApplied)

\* The first position from i on that the loop does not skip, Len(p) + 1 if
\* it skips them all
RECURSIVE NextToApply(_, _, _)
NextToApply(p, T, i) ==
    IF i > Len(p) THEN i
    ELSE IF BeyondTarget(T, p[i].version) THEN NextToApply(p, T, i + 1)
    ELSE i

VersionsBetween(p, i, j) == [k \in 1..(j - i) |-> p[i + k - 1].version]

\* The loop of run_migrations from position i up to its next call of
\* _execute_migration: the versions beyond the target are skipped, and the
\* call returns when the list is exhausted.
ContinueRun(r, p, T, i, res, lg) ==
    LET j == NextToApply(p, T, i)
        res2 == [res EXCEPT
                   !.skipped_migrations = @ \o VersionsBetween(p, i, j)]
    IN  /\ idx' = [idx EXCEPT ![r] = j]
        /\ stmt' = [stmt EXCEPT ![r] = 0]
        /\ result' = [result EXCEPT ![r] = res2]
        /\ IF j > Len(p)
           THEN /\ pc' = [pc EXCEPT ![r] = "done"]
                /\ log' = [log EXCEPT ![r] = lg]
           ELSE /\ pc' = [pc EXCEPT ![r] = "execute"]
                /\ log' = [log EXCEPT ![r] = Append(lg, Applying(p[j]))]

\* The call returns without entering the loop, with result res
ReturnAtOnce(r, res) ==
    /\ pc' = [pc EXCEPT ![r] = "done"]
    /\ pending' = [pending EXCEPT ![r] = << >>]
    /\ idx' = [idx EXCEPT ![r] = 0]
    /\ stmt' = [stmt EXCEPT ![r] = 0]
    /\ result' = [result EXCEPT ![r] = res]
    /\ log' = [log EXCEPT ![r] = << >>]

\* The calls one behaviour may make: MaxCalls of them without the wrapper,
\* and with it more than the attempts of its invocations
CallLimit ==
    IF wpc = "off" THEN MaxCalls
    ELSE (MaxInvocations + 1) * MIGRATION_RETRY_COUNT

\* StartCall of a runner that takes a lock which the other runners respect
StartCallExclusive(r, T) ==
    /\ Idle(r)
    /\ \A o \in Runners \ {r} : Idle(o)
    /\ calls < CallLimit
    /\ calls' = calls + 1
    /\ call' = [call EXCEPT ![r] = calls + 1]
    /\ target' = [target EXCEPT ![r] = T]
    /\ before' = [before EXCEPT ![r] = ledger]
    /\ tx' = [tx EXCEPT ![r] = << >>]

\* A call starts whatever the other runners do: the code takes no lock
StartCall(r, T) ==
    /\ Idle(r)
    /\ calls < CallLimit
    /\ calls' = calls + 1
    /\ call' = [call EXCEPT ![r] = calls + 1]
    /\ target' = [target EXCEPT ![r] = T]
    /\ before' = [before EXCEPT ![r] = ledger]
    /\ tx' = [tx EXCEPT ![r] = << >>]

\* run_migrations(target_version) up to its first call of
\* _execute_migration. The connection or the SELECT may fail.
RunMigrations(r, T) ==
    /\ StartCall(r, T)
    /\ \E outcome \in {"ok", "connect_failed", "select_failed"} :
         IF outcome = "connect_failed"
         THEN /\ ReturnAtOnce(r, [NewRunResult EXCEPT
                                    !.success = FALSE, !.error = OtherError])
              /\ UNCHANGED tableExists
         ELSE IF outcome = "select_failed"
         THEN /\ ReturnAtOnce(r, [NewRunResult EXCEPT
                                    !.success = FALSE, !.error = OtherError])
              /\ tableExists' = TRUE
         ELSE /\ tableExists' = TRUE
              /\ LET p == PendingMigrations(DiscoverMigrationFiles(files),
                                            VersionsOf(ledger))
                 IN IF p = << >>
                    THEN ReturnAtOnce(r, NewRunResult)
                    ELSE /\ pending' = [pending EXCEPT ![r] = p]
                         /\ ContinueRun(r, p, T, 1, NewRunResult, << >>)
    /\ UNCHANGED << fsVars, ledger, dbLog >>

\* FailRun with conn.commit() where the code calls conn.rollback()
FailRunCommitting(r, err) ==
    /\ dbLog' = Append(dbLog, [call |-> call[r], ops |-> tx[r]])
    /\ ledger' = ApplyLedger(ledger, tx[r])
    /\ tx' = [tx EXCEPT ![r] = << >>]
    /\ result' = [result EXCEPT ![r].success = FALSE, ![r].error = err]
    /\ pc' = [pc EXCEPT ![r] = "done"]
    /\ UNCHANGED << fsVars, tableExists, calls, call, target, before, pending,
                    idx, stmt, log >>

\* FailRun of a loop that rolls back and breaks, and leaves success as it is
FailRunSilent(r, err) ==
    /\ tx' = [tx EXCEPT ![r] = << >>]
    /\ result' = [result EXCEPT ![r].error = err]
    /\ pc' = [pc EXCEPT ![r] = "done"]
    /\ UNCHANGED << fsVars, dbVars, calls, call, target, before, pending,
                    idx, stmt, log >>

\* The except clause of the loop: conn.rollback(), success = False,
\* error = str(e), break. When conn.rollback() raises too, the outer except
\* clause sets error to that exception's text.
FailRun(r, err) ==
    /\ tx' = [tx EXCEPT ![r] = << >>]
    /\ \E rolledBack \in BOOLEAN :
         result' = [result EXCEPT
                      ![r].success = FALSE,
                      ![r].error = IF rolledBack THEN err ELSE OtherError]
    /\ pc' = [pc EXCEPT ![r] = "done"]
    /\ UNCHANGED << fsVars, dbVars, calls, call, target, before, pending,
                    idx, stmt, log >>

Current(r) == pending[r][idx[r]]

\* ExecuteStatement on a connection in autocommit mode: each statement is
\* durable as soon as it is executed
ExecuteStatementAutocommit(r) ==
    /\ pc[r] = "execute"
    /\ stmt[r] < StatementCount(Current(r).file_path)
    /\ \E ok \in BOOLEAN :
         IF ok
         THEN /\ dbLog' = Append(dbLog,
                    [call |-> call[r],
                     ops |-> << StatementOp(Current(r).file_path,
                                            stmt[r] + 1) >>])
              /\ stmt' = [stmt EXCEPT ![r] = @ + 1]
              /\ UNCHANGED << fsVars, tableExists, ledger, calls, pc, call,
                              target, before, pending, idx, tx, result, log >>
         ELSE FailRun(r, MigrationFailed(Current(r).version))

\* _execute_migration: one cursor.execute(statement) of the migration file
ExecuteStatement(r) ==
    /\ pc[r] = "execute"
    /\ stmt[r] < StatementCount(Current(r).file_path)
    /\ \E ok \in BOOLEAN :
         IF ok
         THEN /\ tx' = [tx EXCEPT ![r] =
                          Append(@, StatementOp(Current(r).file_path,
                                                stmt[r] + 1))]
              /\ stmt' = [stmt EXCEPT ![r] = @ + 1]
              /\ UNCHANGED << fsVars, dbVars, calls, pc, call, target, before,
                              pending, idx, result, log >>
         ELSE FailRun(r, MigrationFailed(Current(r).version))

\* Another connection has inserted the row of this version and has not
\* committed it yet: an INSERT of the same primary key waits for it
InsertPending(r, version) ==
    \E o \in Runners \ {r} :
        \E i \in 1..Len(tx[o]) : tx[o][i] = InsertOp(version, tx[o][i].name)

\* _execute_migration: the INSERT into schema_migrations, and then
\* results['applied_migrations'].append(migration.version)
RecordMigration(r) ==
    /\ pc[r] = "execute"
    /\ stmt[r] = StatementCount(Current(r).file_path)
    /\ \E ok \in BOOLEAN :
         IF ok /\ ~DuplicateKey(LedgerView(r), Current(r).version)
         THEN /\ ~InsertPending(r, Current(r).version)
              /\ tx' = [tx EXCEPT ![r] =
                          Append(@, InsertOp(Current(r).version,
                                             Current(r).name))]
              /\ result' = [result EXCEPT ![r].applied_migrations =
                              Append(@, Current(r).version)]
              /\ pc' = [pc EXCEPT ![r] = "commit"]
              /\ UNCHANGED << fsVars, dbVars, calls, call, target, before,
                              pending, idx, stmt, log >>
         ELSE FailRun(r, MigrationFailed(Current(r).version))

\* conn.commit() after the migration, then the loop goes on
CommitMigration(r) ==
    /\ pc[r] = "commit"
    /\ \E ok \in BOOLEAN :
         IF ok
         THEN /\ dbLog' = Append(dbLog, [call |-> call[r], ops |-> tx[r]])
              /\ ledger' = ApplyLedger(ledger, tx[r])
              /\ tx' = [tx EXCEPT ![r] = << >>]
              /\ ContinueRun(r, pending[r], target[r], idx[r] + 1, result[r],
                             log[r])
              /\ UNCHANGED << fsVars, tableExists, calls, call, target, before,
                              pending >>
         ELSE FailRun(r, OtherError)

\* The locals of a call that is over
ClearCall(r) ==
    /\ pc' = [pc EXCEPT ![r] = "idle"]
    /\ target' = [target EXCEPT ![r] = NoTarget]
    /\ before' = [before EXCEPT ![r] = << >>]
    /\ pending' = [pending EXCEPT ![r] = << >>]
    /\ idx' = [idx EXCEPT ![r] = 0]
    /\ stmt' = [stmt EXCEPT ![r] = 0]
    /\ tx' = [tx EXCEPT ![r] = << >>]
    /\ result' = [result EXCEPT ![r] = NoResult]
    /\ log' = [log EXCEPT ![r] = << >>]

\* The process is killed during a call: the database rolls the open
\* transaction back, and nothing is returned
Crash(r) ==
    /\ Running(r)
    /\ ClearCall(r)
    /\ UNCHANGED << fsVars, dbVars, calls, call >>

\* The caller has taken the result of the call
Return(r) ==
    /\ pc[r] = "done"
    /\ ClearCall(r)
    /\ UNCHANGED << fsVars, dbVars, calls, call >>

(***************************************************************************)
(* MigrationRunner.rollback_migration                                      *)
(***************************************************************************)

\* SELECT version, name ... WHERE version > %s ORDER BY version DESC
RECURSIVE DescendingRows(_)
DescendingRows(rows) ==
    IF rows = {} THEN << >>
    ELSE LET m == CHOOSE x \in rows :
                    \A y \in rows : ~StrLess(x.version, y.version)
         IN << m >> \o DescendingRows(rows \ {m})

\* RowsAfter with WHERE version >= %s
RowsFrom(rows, T) ==
    DescendingRows({rows[i] : i \in {k \in 1..Len(rows) :
                                        ~StrLess(rows[k].version, T.value)}})

RowsAfter(rows, T) ==
    DescendingRows({rows[i] : i \in {k \in 1..Len(rows) :
                                        StrLess(T.value, rows[k].version)}})

\* f"{version}_{name.lower().replace(' ', '_')}.rollback.sql"
RollbackFile(row) ==
    row.version \o Underscore
        \o Replace(Lower(row.name), << " " >>, Underscore) \o RollbackExt

\* NextToRollBack of a loop that a missing rollback script ends
NextToRollBackHalting(rows, dir, i) ==
    IF i > Len(rows) THEN i
    ELSE IF RollbackFile(rows[i]) \notin dir THEN Len(rows) + 1
    ELSE i

\* The first position from i on whose rollback script exists
RECURSIVE NextToRollBack(_, _, _)
NextToRollBack(rows, dir, i) ==
    IF i > Len(rows) THEN i
    ELSE IF RollbackFile(rows[i]) \notin dir
         THEN NextToRollBack(rows, dir, i + 1)
    ELSE i

\* The loop of rollback_migration from position i up to its next rollback
\* script: a version without one is logged and passed over.
ContinueRollback(r, rows, i, res, lg) ==
    LET j == NextToRollBack(rows, files, i)
        warned == [k \in 1..(j - i) |-> NoRollbackScript(rows[i + k - 1].version)]
    IN  /\ idx' = [idx EXCEPT ![r] = j]
        /\ stmt' = [stmt EXCEPT ![r] = 0]
        /\ result' = [result EXCEPT ![r] = res]
        /\ log' = [log EXCEPT ![r] = lg \o warned]
        /\ pc' = [pc EXCEPT ![r] = IF j > Len(rows) THEN "done"
                                   ELSE "rb_execute"]

\* rollback_migration(target_version) up to its first rollback script. The
\* connection or the SELECT may fail; the SELECT fails when the table does
\* not exist.
RollbackMigration(r, T) ==
    /\ StartCall(r, T)
    /\ \E ok \in BOOLEAN :
         IF ~ok \/ ~tableExists
         THEN ReturnAtOnce(r, [NewRollbackResult EXCEPT
                                 !.success = FALSE, !.error = OtherError])
         ELSE LET rows == RowsAfter(ledger, T)
              IN IF rows = << >>
                 THEN ReturnAtOnce(r, NewRollbackResult)
                 ELSE /\ pending' = [pending EXCEPT ![r] = rows]
                      /\ ContinueRollback(r, rows, 1, NewRollbackResult, << >>)
    /\ UNCHANGED << fsVars, dbVars >>

\* The except clause of the loop: conn.rollback(), success = False,
\* error = f"Rollback failed for {version}: {e}", break. When
\* conn.rollback() raises too, the outer except clause sets error to that
\* exception's text.
FailRollback(r) ==
    /\ tx' = [tx EXCEPT ![r] = << >>]
    /\ \E rolledBack \in BOOLEAN :
         result' = [result EXCEPT
                      ![r].success = FALSE,
                      ![r].error = IF rolledBack
                                   THEN RollbackFailed(Current(r).version)
                                   ELSE OtherError]
    /\ pc' = [pc EXCEPT ![r] = "done"]
    /\ UNCHANGED << fsVars, dbVars, calls, call, target, before, pending,
                    idx, stmt, log >>

\* One cursor.execute(statement) of the rollback script
RollbackStatement(r) ==
    /\ pc[r] = "rb_execute"
    /\ stmt[r] < StatementCount(RollbackFile(Current(r)))
    /\ \E ok \in BOOLEAN :
         IF ok
         THEN /\ tx' = [tx EXCEPT ![r] =
                          Append(@, StatementOp(RollbackFile(Current(r)),
                                                stmt[r] + 1))]
              /\ stmt' = [stmt EXCEPT ![r] = @ + 1]
              /\ UNCHANGED << fsVars, dbVars, calls, pc, call, target, before,
                              pending, idx, result, log >>
         ELSE FailRollback(r)

\* DELETE FROM schema_migrations WHERE version = %s, and then
\* results['rolled_back_migrations'].append(version)
RollbackDelete(r) ==
    /\ pc[r] = "rb_execute"
    /\ stmt[r] = StatementCount(RollbackFile(Current(r)))
    /\ \E ok \in BOOLEAN :
         IF ok
         THEN /\ tx' = [tx EXCEPT ![r] =
                          Append(@, DeleteOp(Current(r).version))]
              /\ result' = [result EXCEPT ![r].rolled_back_migrations =
                              Append(@, Current(r).version)]
              /\ pc' = [pc EXCEPT ![r] = "rb_commit"]
              /\ UNCHANGED << fsVars, dbVars, calls, call, target, before,
                              pending, idx, stmt, log >>
         ELSE FailRollback(r)

\* conn.commit() after the rollback, then the loop goes on
RollbackCommit(r) ==
    /\ pc[r] = "rb_commit"
    /\ \E ok \in BOOLEAN :
         IF ok
         THEN /\ dbLog' = Append(dbLog, [call |-> call[r], ops |-> tx[r]])
              /\ ledger' = ApplyLedger(ledger, tx[r])
              /\ tx' = [tx EXCEPT ![r] = << >>]
              /\ ContinueRollback(r, pending[r], idx[r] + 1, result[r],
                                  Append(log[r],
                                         RolledBack(Current(r).version)))
              /\ UNCHANGED << fsVars, tableExists, calls, call, target, before,
                              pending >>
         ELSE FailRollback(r)

(***************************************************************************)
(* MigrationRunner.get_migration_status                                    *)
(***************************************************************************)

\* The dictionary get_migration_status returns
StatusOf(rows, dir) ==
    LET applied == VersionsOf(rows)
        available == DiscoverMigrationFiles(dir)
        pend == PendingMigrations(available, applied)
    IN [kind |-> "status",
        applied_count |-> Cardinality(applied),
        pending_count |-> Len(pend),
        total_available |-> Len(available),
        applied_migrations |-> applied,
        pending_migrations |-> [i \in 1..Len(pend) |-> pend[i].version]]

\* {'error': str(e)}
StatusError == [kind |-> "status_error"]

GetMigrationStatus(r) ==
    /\ Idle(r)
    /\ \E outcome \in {"ok", "connect_failed", "select_failed"} :
         /\ tableExists' = (tableExists \/ outcome # "connect_failed")
         /\ result' = [result EXCEPT ![r] =
                         IF outcome = "ok" THEN StatusOf(ledger, files)
                         ELSE StatusError]
    /\ pc' = [pc EXCEPT ![r] = "done"]
    /\ target' = [target EXCEPT ![r] = NoTarget]
    /\ before' = [before EXCEPT ![r] = ledger]
    /\ pending' = [pending EXCEPT ![r] = << >>]
    /\ idx' = [idx EXCEPT ![r] = 0]
    /\ stmt' = [stmt EXCEPT ![r] = 0]
    /\ tx' = [tx EXCEPT ![r] = << >>]
    /\ log' = [log EXCEPT ![r] = << >>]
    /\ UNCHANGED << fsVars, ledger, dbLog, calls, call >>

(***************************************************************************)
(* The migrations directory                                                *)
(***************************************************************************)

\* A file is added to the directory between two calls
AddFile(f) ==
    /\ \A r \in Runners : pc[r] = "idle"
    /\ fileChanges < MaxFileChanges
    /\ f \notin files
    /\ files' = files \cup {f}
    /\ fileChanges' = fileChanges + 1
    /\ UNCHANGED << dbVars, calls, pc, call, target, before, pending, idx,
                    stmt, tx, result, log >>

\* A file is removed from the directory between two calls
RemoveFile(f) ==
    /\ \A r \in Runners : pc[r] = "idle"
    /\ fileChanges < MaxFileChanges
    /\ f \in files
    /\ files' = files \ {f}
    /\ fileChanges' = fileChanges + 1
    /\ UNCHANGED << dbVars, calls, pc, call, target, before, pending, idx,
                    stmt, tx, result, log >>

(***************************************************************************)
(* Specification: one runner at a time                                     *)
(***************************************************************************)

\* The contents of the migrations directory at the start
Directories ==
    { {F1, F2, F3, R2, R3},
      {F1, F2, F2x, R2},
      {F1, F2, F3w, R3},
      {F1, F3, F3w},
      {F1, F3, R3} }

\* No call of the runner has been made
RunnerInit ==
    /\ files \in Directories
    /\ fileChanges = 0
    /\ tableExists = FALSE
    /\ ledger = << >>
    /\ dbLog = << >>
    /\ calls = 0
    /\ pc = [r \in Runners |-> "idle"]
    /\ call = [r \in Runners |-> 0]
    /\ target = [r \in Runners |-> NoTarget]
    /\ before = [r \in Runners |-> << >>]
    /\ pending = [r \in Runners |-> << >>]
    /\ idx = [r \in Runners |-> 0]
    /\ stmt = [r \in Runners |-> 0]
    /\ tx = [r \in Runners |-> << >>]
    /\ result = [r \in Runners |-> NoResult]
    /\ log = [r \in Runners |-> << >>]

\* No invocation of the wrapper and no health check has been made
WrapperInit ==
    /\ invocations = 0
    /\ waitAttempt = 0
    /\ attempt = 0
    /\ outcomes = << >>
    /\ sleeps = 0
    /\ success = FALSE
    /\ markers = {}
    /\ written = {}
    /\ exitCode = NoExit
    /\ healthChecks = 0
    /\ health = "none"

\* A command line: the program, its command and its --target
Command(p, n, T) == [program |-> p, name |-> n, target |-> T]

NoCommand == Command("none", "none", NoTarget)

\* No process was started from a command line
CliInit ==
    /\ command = NoCommand
    /\ probeLog = << >>

\* execute_script has not been called
ScriptInit ==
    /\ spc = "idle"
    /\ scripts = 0
    /\ script = 0
    /\ sdone = 0
    /\ stx = << >>

Init == RunnerInit /\ WrapperInit /\ CliInit /\ ScriptInit /\ wpc = "off"

Step(r) ==
    \/ \E T \in Targets : RunMigrations(r, T)
    \/ ExecuteStatement(r)
    \/ RecordMigration(r)
    \/ CommitMigration(r)
    \/ \E T \in RollbackTargets : RollbackMigration(r, T)
    \/ RollbackStatement(r)
    \/ RollbackDelete(r)
    \/ RollbackCommit(r)
    \/ GetMigrationStatus(r)
    \/ Return(r)
    \/ Crash(r)

Next ==
    \/ Step("r1") /\ UNCHANGED otherVars
    \/ (\E f \in FilePool : AddFile(f)) /\ UNCHANGED otherVars
    \/ (\E f \in FilePool : RemoveFile(f)) /\ UNCHANGED otherVars

Spec == Init /\ [][Next]_vars

(***************************************************************************)
(* Specification: two runners call run_migrations on the same database     *)
(***************************************************************************)

StepConcurrent(r) ==
    \/ RunMigrations(r, NoTarget)
    \/ ExecuteStatement(r)
    \/ RecordMigration(r)
    \/ CommitMigration(r)
    \/ Return(r)

NextConcurrent == \E r \in Runners : StepConcurrent(r) /\ UNCHANGED otherVars

ConcurrentSpec == Init /\ [][NextConcurrent]_vars

(***************************************************************************)
(* container_migrate.py: main() with the command migrate, and              *)
(* health_check.py: check_migration_status                                 *)
(***************************************************************************)

\* The state of the runner, the database and the migrations directory
runVars ==
    << files, fileChanges, tableExists, ledger, dbLog, calls, pc, call,
       target, before, pending, idx, stmt, tx, result, log >>

\* main() starts with the command migrate and calls wait_for_database_ready
StartInvocation ==
    /\ wpc \in {"idle", "exited"}
    /\ invocations < MaxInvocations
    /\ invocations' = invocations + 1
    /\ wpc' = "wait"
    /\ waitAttempt' = 1
    /\ attempt' = 0
    /\ outcomes' = << >>
    /\ sleeps' = 0
    /\ success' = FALSE
    /\ written' = {}
    /\ exitCode' = NoExit
    /\ UNCHANGED << runVars, markers, healthChecks, health >>

\* One attempt of wait_for_database_ready. When the database answers, main
\* goes on to run_container_migrations; when the last attempt fails,
\* wait_for_database_ready returns False and main calls sys.exit(1).
WaitForDatabase ==
    /\ wpc = "wait"
    /\ \E ready \in BOOLEAN :
         IF ready
         THEN /\ wpc' = "attempt"
              /\ waitAttempt' = 0
              /\ attempt' = 1
              /\ UNCHANGED exitCode
         ELSE IF waitAttempt < max_attempts
         THEN /\ waitAttempt' = waitAttempt + 1
              /\ UNCHANGED << wpc, attempt, exitCode >>
         ELSE /\ wpc' = "exited"
              /\ waitAttempt' = 0
              /\ exitCode' = 1
              /\ UNCHANGED attempt
    /\ UNCHANGED << runVars, invocations, outcomes, sleeps, success, markers,
                    written, healthChecks, health >>

\* AttemptFailed of a loop that sleeps and retries after its last attempt too
AttemptFailedRetrying(outcome) ==
    /\ outcomes' = Append(outcomes, outcome)
    /\ wpc' = "sleep"
    /\ sleeps' = sleeps + 1
    /\ UNCHANGED << invocations, waitAttempt, attempt, success, markers,
                    written, exitCode, healthChecks, health >>

\* An attempt of run_container_migrations ends without success: sleep and
\* continue when attempt < MIGRATION_RETRY_COUNT, else return False
AttemptFailed(outcome) ==
    /\ outcomes' = Append(outcomes, outcome)
    /\ IF attempt < MIGRATION_RETRY_COUNT
       THEN /\ wpc' = "sleep"
            /\ sleeps' = sleeps + 1
            /\ UNCHANGED success
       ELSE /\ wpc' = "returned"
            /\ success' = FALSE
            /\ UNCHANGED sleeps
    /\ UNCHANGED << invocations, waitAttempt, attempt, markers, written,
                    exitCode, healthChecks, health >>

\* An attempt of run_container_migrations starts: the connection test, and
\* then the call runner.run_migrations(). A failed connection test raises.
StartAttempt ==
    /\ wpc = "attempt"
    /\ \E connected \in BOOLEAN :
         IF connected
         THEN /\ RunMigrations("r1", NoTarget)
              /\ wpc' = "running"
              /\ UNCHANGED << invocations, waitAttempt, attempt, outcomes,
                              sleeps, success, markers, written, exitCode,
                              healthChecks, health >>
         ELSE /\ AttemptFailed("exception")
              /\ UNCHANGED runVars

\* runner.run_migrations() goes on inside the attempt
RunInAttempt ==
    /\ wpc = "running"
    /\ \/ ExecuteStatement("r1")
       \/ RecordMigration("r1")
       \/ CommitMigration("r1")
    /\ UNCHANGED wrapVars

\* How an attempt whose results have success = false is recorded: a
\* migration raised inside _execute_migration, or the database call failed
\* outside it
FailureOf(res) ==
    IF res.error.type = "migration" THEN "migration_failed" ELSE "failed"

\* runner.run_migrations() has returned its results, and the attempt ends
\* on results['success']
EndAttempt ==
    /\ wpc = "running"
    /\ pc["r1"] = "done"
    /\ IF result["r1"].success
       THEN /\ outcomes' = Append(outcomes, "success")
            /\ wpc' = "returned"
            /\ success' = TRUE
            /\ UNCHANGED << invocations, waitAttempt, attempt, sleeps,
                            markers, written, exitCode, healthChecks, health >>
       ELSE AttemptFailed(FailureOf(result["r1"]))
    /\ ClearCall("r1")
    /\ UNCHANGED << fsVars, dbVars, calls, call >>

\* time.sleep(MIGRATION_RETRY_DELAY) is over: the next attempt
NextAttempt ==
    /\ wpc = "sleep"
    /\ wpc' = "attempt"
    /\ attempt' = attempt + 1
    /\ UNCHANGED << runVars, invocations, waitAttempt, outcomes, sleeps,
                    success, markers, written, exitCode, healthChecks,
                    health >>

\* migration_success or migration_failure
MarkerOf(ok) == IF ok THEN "migration_success" ELSE "migration_failure"

\* main() after run_container_migrations returned: the marker file is
\* written and the process exits with 0 or 1. When mkdir or write_text
\* raises, main's except clause calls sys.exit(1).
WriteMarker ==
    /\ wpc = "returned"
    /\ \E wrote \in BOOLEAN :
         IF wrote
         THEN /\ markers' = markers \cup {MarkerOf(success)}
              /\ written' = written \cup {MarkerOf(success)}
              /\ exitCode' = IF success THEN 0 ELSE 1
         ELSE /\ exitCode' = 1
              /\ UNCHANGED << markers, written >>
    /\ wpc' = "exited"
    /\ UNCHANGED << runVars, invocations, waitAttempt, attempt, outcomes,
                    sleeps, success, healthChecks, health >>

\* health_check.py: check_migration_status()
CheckMigrationStatus ==
    /\ healthChecks < MaxHealthChecks
    /\ healthChecks' = healthChecks + 1
    /\ \E connected \in BOOLEAN :
         health' = IF "migration_failure" \in markers THEN "fail"
                   ELSE IF "migration_success" \in markers THEN "pass"
                   ELSE IF connected /\ tableExists THEN "pass"
                   ELSE "fail"
    /\ UNCHANGED << runVars, wpc, invocations, waitAttempt, attempt, outcomes,
                    sleeps, success, markers, written, exitCode >>

\* command = sys.argv[1] if len(sys.argv) > 1 else 'migrate'
ContainerMigrate == Command("container_migrate.py", "migrate", NoTarget)

InitWrapper ==
    /\ RunnerInit
    /\ WrapperInit
    /\ wpc = "idle"
    /\ command = ContainerMigrate
    /\ probeLog = << >>
    /\ ScriptInit

NextWrapper ==
    \/ StartInvocation /\ UNCHANGED << cliVars, scriptVars >>
    \/ WaitForDatabase /\ UNCHANGED << cliVars, scriptVars >>
    \/ StartAttempt /\ UNCHANGED << cliVars, scriptVars >>
    \/ RunInAttempt /\ UNCHANGED << cliVars, scriptVars >>
    \/ EndAttempt /\ UNCHANGED << cliVars, scriptVars >>
    \/ NextAttempt /\ UNCHANGED << cliVars, scriptVars >>
    \/ WriteMarker /\ UNCHANGED << cliVars, scriptVars >>
    \/ CheckMigrationStatus /\ UNCHANGED << cliVars, scriptVars >>

WrapperSpec == InitWrapper /\ [][NextWrapper]_vars

(***************************************************************************)
(* The command lines: main() of migrate.py, of run_migrations.py and of    *)
(* container_migrate.py                                                    *)
(***************************************************************************)

\* The programs with a command line
Programs == {"migrate.py", "run_migrations.py", "container_migrate.py"}

\* The --target arguments given on a command line of migrate.py
CliTargets == {NoTarget, Target(<< >>), Target(V1), Target(V2)}

\* The command lines: the commands each main() knows, and one it does not
Commands ==
    {Command("migrate.py", n, T) :
        n \in {"migrate", "rollback"}, T \in CliTargets}
    \cup {Command("migrate.py", n, NoTarget) : n \in {"status", "unknown"}}
    \cup {Command("run_migrations.py", n, NoTarget) :
            n \in {"migrate", "status", "unknown"}}
    \cup {Command("container_migrate.py", n, NoTarget) :
            n \in {"migrate", "status", "wait", "unknown"}}

\* if not args.target
NoTargetGiven(c) == ~c.target.given \/ c.target.value = << >>

\* The max_attempts argument main() gives wait_for_database_ready
ReadinessLimit(c) ==
    IF c.name = "status" THEN status_max_attempts ELSE max_attempts

\* A process starts and main() reads its command line. argparse rejects a
\* command that is not among its choices; container_migrate.py has its own
\* branch for it. rollback of migrate.py needs a target.
ParseArguments(c) ==
    /\ wpc \in {"idle", "exited"}
    /\ invocations < MaxInvocations
    /\ invocations' = invocations + 1
    /\ command' = c
    /\ probeLog' = << >>
    /\ attempt' = 0
    /\ outcomes' = << >>
    /\ sleeps' = 0
    /\ success' = FALSE
    /\ written' = {}
    /\ ClearCall("r1")
    /\ IF c.name = "unknown"
       THEN /\ wpc' = "exited"
            /\ waitAttempt' = 0
            /\ exitCode' = IF c.program = "container_migrate.py"
                           THEN 1 ELSE ARGPARSE_ERROR
       ELSE IF c.program = "container_migrate.py"
       THEN /\ wpc' = IF c.name = "migrate" THEN "wait" ELSE "cli_wait"
            /\ waitAttempt' = 1
            /\ exitCode' = NoExit
       ELSE IF c.name = "rollback" /\ NoTargetGiven(c)
       THEN /\ wpc' = "exited"
            /\ waitAttempt' = 0
            /\ exitCode' = 1
       ELSE /\ wpc' = "cli_call"
            /\ waitAttempt' = 0
            /\ exitCode' = NoExit
    /\ UNCHANGED << fsVars, dbVars, calls, call, markers, healthChecks,
                    health >>

\* wait_for_database_ready with one probe too many
WaitForDatabaseReadyOnceMore ==
    /\ wpc = "cli_wait"
    /\ \E ok \in BOOLEAN :
         /\ probeLog' = Append(probeLog, ok)
         /\ IF ok
            THEN /\ waitAttempt' = 0
                 /\ IF command.name = "wait"
                    THEN wpc' = "exited" /\ exitCode' = 0
                    ELSE wpc' = "cli_call" /\ UNCHANGED exitCode
            ELSE IF waitAttempt <= ReadinessLimit(command)
            THEN /\ waitAttempt' = waitAttempt + 1
                 /\ UNCHANGED << wpc, exitCode >>
            ELSE /\ waitAttempt' = 0
                 /\ wpc' = "exited"
                 /\ exitCode' = 1
    /\ UNCHANGED << runVars, invocations, attempt, outcomes, sleeps, success,
                    markers, written, healthChecks, health, command >>

\* One probe of wait_for_database_ready in the commands wait and status:
\* a connection is opened and SELECT 1 is executed. When it answers the
\* function returns True; when it raises, the function sleeps and goes on
\* if attempt < max_attempts and returns False otherwise. The command wait
\* exits with 0 or 1 on that; status exits with 1 on False.
WaitForDatabaseReady ==
    /\ wpc = "cli_wait"
    /\ \E ok \in BOOLEAN :
         /\ probeLog' = Append(probeLog, ok)
         /\ IF ok
            THEN /\ waitAttempt' = 0
                 /\ IF command.name = "wait"
                    THEN wpc' = "exited" /\ exitCode' = 0
                    ELSE wpc' = "cli_call" /\ UNCHANGED exitCode
            ELSE IF waitAttempt < ReadinessLimit(command)
            THEN /\ waitAttempt' = waitAttempt + 1
                 /\ UNCHANGED << wpc, exitCode >>
            ELSE /\ waitAttempt' = 0
                 /\ wpc' = "exited"
                 /\ exitCode' = 1
    /\ UNCHANGED << runVars, invocations, attempt, outcomes, sleeps, success,
                    markers, written, healthChecks, health, command >>

\* main() calls the operation of its command: run_migrations(args.target)
\* (without a target in run_migrations.py), rollback_migration(args.target)
\* or get_migration_status()
CliCall ==
    /\ wpc = "cli_call"
    /\ wpc' = "cli_running"
    /\ CASE command.name = "migrate" -> RunMigrations("r1", command.target)
         [] command.name = "rollback" ->
                RollbackMigration("r1", command.target)
         [] OTHER -> GetMigrationStatus("r1")
    /\ UNCHANGED << invocations, waitAttempt, attempt, outcomes, sleeps,
                    success, markers, written, exitCode, healthChecks,
                    health, cliVars >>

\* The operation goes on
CliRun ==
    /\ wpc = "cli_running"
    /\ \/ ExecuteStatement("r1")
       \/ RecordMigration("r1")
       \/ CommitMigration("r1")
       \/ RollbackStatement("r1")
       \/ RollbackDelete("r1")
       \/ RollbackCommit("r1")
    /\ UNCHANGED << wrapVars, cliVars >>

\* What main() takes for the success of the operation: results['success'],
\* and for status that the dictionary has no key 'error'
Succeeded(res) ==
    IF res.kind \in {"migrate", "rollback"} THEN res.success
    ELSE res.kind = "status"

\* CliExit of a main() that prints the failure and falls off its end
CliExitSilent ==
    /\ wpc = "cli_running"
    /\ pc["r1"] = "done"
    /\ wpc' = "exited"
    /\ exitCode' = 0
    /\ UNCHANGED << runVars, invocations, waitAttempt, attempt, outcomes,
                    sleeps, success, markers, written, healthChecks, health,
                    cliVars >>

\* The operation has returned, and the process exits with 0 or with 1
CliExit ==
    /\ wpc = "cli_running"
    /\ pc["r1"] = "done"
    /\ wpc' = "exited"
    /\ exitCode' = IF Succeeded(result["r1"]) THEN 0 ELSE 1
    /\ UNCHANGED << runVars, invocations, waitAttempt, attempt, outcomes,
                    sleeps, success, markers, written, healthChecks, health,
                    cliVars >>

InitCli ==
    RunnerInit /\ WrapperInit /\ CliInit /\ ScriptInit /\ wpc = "idle"

NextCli ==
    \/ (\E c \in Commands : ParseArguments(c)) /\ UNCHANGED scriptVars
    \/ WaitForDatabaseReady /\ UNCHANGED scriptVars
    \/ CliCall /\ UNCHANGED scriptVars
    \/ CliRun /\ UNCHANGED scriptVars
    \/ CliExit /\ UNCHANGED scriptVars
    \/ WaitForDatabase /\ UNCHANGED << cliVars, scriptVars >>
    \/ StartAttempt /\ UNCHANGED << cliVars, scriptVars >>
    \/ RunInAttempt /\ UNCHANGED << cliVars, scriptVars >>
    \/ EndAttempt /\ UNCHANGED << cliVars, scriptVars >>
    \/ NextAttempt /\ UNCHANGED << cliVars, scriptVars >>
    \/ WriteMarker /\ UNCHANGED << cliVars, scriptVars >>

CliSpec == InitCli /\ [][NextCli]_vars

\* The commands of container_migrate.py that call wait_for_database_ready
\* and no run_container_migrations
ReadinessCommands ==
    {c \in Commands :
        c.program = "container_migrate.py" /\ c.name \in {"wait", "status"}}

NextReadiness ==
    \/ (\E c \in ReadinessCommands : ParseArguments(c))
           /\ UNCHANGED scriptVars
    \/ WaitForDatabaseReady /\ UNCHANGED scriptVars
    \/ CliCall /\ UNCHANGED scriptVars
    \/ CliExit /\ UNCHANGED scriptVars

\* The loop of wait_for_database_ready goes on by itself: a probe returns
\* or raises, and time.sleep(delay) ends
ReadinessSpec ==
    /\ InitCli
    /\ [][NextReadiness]_vars
    /\ WF_vars(WaitForDatabaseReady /\ UNCHANGED scriptVars)

(***************************************************************************)
(* backend/src/utils/database.py: DatabaseManager.execute_script, which    *)
(* execute_sql_script calls, on a connection of the pool                   *)
(***************************************************************************)

\* The script is not a file of the migrations directory
ScriptName == << "s", "c", "r", "i", "p", "t" >>

\* The statements 1..n of the script, as operations of a transaction
ScriptStatements(n) == [k \in 1..n |-> StatementOp(ScriptName, k)]

\* execute_script(script): get_connection() takes a connection from the
\* pool, which may raise, and the script is split into its statements
ExecuteScript(n) ==
    /\ spc \in {"idle", "returned", "raised"}
    /\ scripts < MaxScripts
    /\ scripts' = scripts + 1
    /\ script' = n
    /\ sdone' = 0
    /\ \E connected \in BOOLEAN :
         spc' = IF connected THEN "executing" ELSE "raised"
    /\ UNCHANGED << runVars, wrapVars, cliVars, stx >>

\* connection.close() of a pool made with pool_reset_session=False: the
\* connection goes back to the pool with its transaction open
CloseConnectionKeeping == UNCHANGED stx

\* finally: connection.close() in get_connection. The pool was made with
\* pool_reset_session=True, so the session is reset when the connection
\* goes back to the pool, and an open transaction is rolled back.
CloseConnection == stx' = << >>

\* An exception leaves execute_script: a TransactionError of a statement is
\* no MySQLError, so connection.rollback() is not called for it, and
\* get_connection raises a DatabaseError from it and closes the connection.
\* After a MySQLError of connection.commit() the connection is rolled back
\* and closed.
RaiseFromScript ==
    /\ spc' = "raised"
    /\ CloseConnection
    /\ UNCHANGED << runVars, wrapVars, cliVars, scripts, script, sdone >>

\* cursor.execute(statement) of the next statement of the script
ScriptStatement ==
    /\ spc = "executing"
    /\ sdone < script
    /\ \E ok \in BOOLEAN :
         IF ok
         THEN /\ stx' = Append(stx, StatementOp(ScriptName, sdone + 1))
              /\ sdone' = sdone + 1
              /\ UNCHANGED << runVars, wrapVars, cliVars, spc, scripts,
                              script >>
         ELSE RaiseFromScript

\* connection.commit() after the last statement, and the connection is
\* closed
ScriptCommit ==
    /\ spc = "executing"
    /\ sdone = script
    /\ \E ok \in BOOLEAN :
         IF ok
         THEN /\ dbLog' = Append(dbLog, [call |-> scripts, ops |-> stx])
              /\ spc' = "returned"
              /\ CloseConnection
              /\ UNCHANGED << fsVars, tableExists, ledger, calls, pc, call,
                              target, before, pending, idx, stmt, tx, result,
                              log, wrapVars, cliVars, scripts, script, sdone >>
         ELSE RaiseFromScript

NextScript ==
    \/ \E n \in 0..MaxStatements : ExecuteScript(n)
    \/ ScriptStatement
    \/ ScriptCommit

ScriptSpec == InitCli /\ [][NextScript]_vars

(***************************************************************************)
(* What the claims speak of                                                *)
(***************************************************************************)

\* The transactions committed by call c, oldest first
CommittedBy(c) ==
    LET ByCall(e) == e.call = c
    IN SelectSeq(dbLog, ByCall)

\* The operations of a migration applied in full: each statement of its
\* file, then its ledger row
FullTransaction(m) ==
    [k \in 1..StatementCount(m.file_path) |-> StatementOp(m.file_path, k)]
        \o << InsertOp(m.version, m.name) >>

\* The operations of a rollback carried out in full: each statement of the
\* rollback script, then the removal of the ledger row
FullRollback(row) ==
    [k \in 1..StatementCount(RollbackFile(row)) |->
        StatementOp(RollbackFile(row), k)]
        \o << DeleteOp(row.version) >>

RowOf(m) == [version |-> m.version, name |-> m.name]

\* The migrations of p that the target does not exclude
WithinTarget(p, T) ==
    LET Within(m) == ~BeyondTarget(T, m.version)
    IN SelectSeq(p, Within)

\* The migrations of p that the target excludes
OutsideTarget(p, T) ==
    LET Outside(m) == BeyondTarget(T, m.version)
    IN SelectSeq(p, Outside)

VersionsIn(p) == [j \in 1..Len(p) |-> p[j].version]

\* The versions of the log lines of one kind, in order
Logged(r, kind) ==
    LET OfKind(l) == l.line = kind
    IN VersionsIn(SelectSeq(log[r], OfKind))

\* The versions whose ledger row call c committed
InsertedBy(c) ==
    UNION { {e.ops[k].version :
                k \in {i \in 1..Len(e.ops) : e.ops[i].op = "insert"}} :
            e \in Range(CommittedBy(c)) }

RunOver(r) == pc[r] = "done" /\ result[r].kind = "migrate"

RollbackOver(r) == pc[r] = "done" /\ result[r].kind = "rollback"

\* A run that failed while it was applying pending[idx]
FailedInLoop(r) ==
    RunOver(r) /\ ~result[r].success /\ idx[r] \in 1..Len(pending[r])

C2_FailFast ==
    \A r \in Runners :
        FailedInLoop(r) =>
            /\ result[r].success = FALSE
            /\ Logged(r, "applying") =
                   VersionsIn(WithinTarget(SubSeq(pending[r], 1, idx[r]),
                                           target[r]))
            /\ result[r].error.version = Current(r).version

\* A call of run_migrations() with no target starts in this step, right
\* after a call of run_migrations() with no target returned success = True
RunsAgain(r) ==
    /\ RunOver(r) /\ result[r].success /\ ~target[r].given
    /\ call'[r] # call[r]
    /\ result'[r].kind = "migrate" /\ ~target'[r].given

(***************************************************************************)
(* C3 as claimed. Idempotence: after run_migrations() returned success =   *)
(* true, with no file added or removed, the next run_migrations() returns  *)
(* applied_migrations = [] with success = true and leaves the ledger       *)
(* unchanged.                                                              *)
(***************************************************************************)
C3_AsClaimed ==
    [][\A r \in Runners :
          RunsAgain(r) =>
              /\ pc'[r] = "done"
              /\ result'[r].applied_migrations = << >>
              /\ result'[r].success
              /\ ledger' = ledger]_vars

(***************************************************************************)
(* C3 amended. Idempotence: after run_migrations() returned success =      *)
(* true, with no file added or removed, the next run_migrations() returns  *)
(* at once with applied_migrations = [] and leaves the ledger and the      *)
(* committed transactions unchanged; its success is true unless it could   *)
(* not connect to or query the database, and then its error is that        *)
(* exception's text.                                                       *)
(***************************************************************************)
C3_Idempotence ==
    [][\A r \in Runners :
          RunsAgain(r) =>
              /\ pc'[r] = "done"
              /\ result'[r].applied_migrations = << >>
              /\ result'[r].skipped_migrations = << >>
              /\ result'[r].success \/ result'[r].error = OtherError
              /\ ledger' = ledger
              /\ dbLog' = dbLog]_vars

\* The second of two runs with no target: the first applied every file of
\* the directory, the second returned success with nothing applied
C3_Witness ==
    /\ RunOver("r1") /\ result["r1"].success /\ ~target["r1"].given
    /\ result["r1"].applied_migrations = << >>
    /\ call["r1"] = 2
    /\ fileChanges = 0
    /\ Len(dbLog) = 3
    /\ \A i \in 1..Len(dbLog) : dbLog[i].call = 1
    /\ VersionsOf(ledger) = Range(VersionsIn(DiscoverMigrationFiles(files)))

\* s is strictly ascending in the order of Python's str
StrictlyAscending(s) ==
    \A i \in 1..(Len(s) - 1) : StrLess(s[i], s[i + 1])

(***************************************************************************)
(* C4 as claimed. Ordering within one run: while run_migrations applies a  *)
(* pending migration B, every pending migration A with version(A) <        *)
(* version(B) has been committed by this run; and the result's             *)
(* applied_migrations list is strictly ascending by version.               *)
(***************************************************************************)
C4_Ordering ==
    \A r \in Runners :
        /\ pc[r] \in {"execute", "commit"} =>
               \A j \in 1..Len(pending[r]) :
                   StrLess(pending[r][j].version, Current(r).version) =>
                       pending[r][j].version \in InsertedBy(call[r])
        /\ result[r].kind = "migrate" =>
               StrictlyAscending(result[r].applied_migrations)

\* The committed transactions that hold a ledger insert
InsertingTransactions ==
    {e \in Range(dbLog) : \E n \in 1..Len(e.ops) : e.ops[n].op = "insert"}

C6_LedgerUnique ==
    \A i, j \in 1..Len(ledger) :
        ledger[i].version = ledger[j].version => i = j

\* A run failed at the ledger insert of a file whose version another file
\* of the same run had already put in the ledger
C6_Witness ==
    /\ FailedInLoop("r1")
    /\ stmt["r1"] = StatementCount(Current("r1").file_path)
    /\ result["r1"].error = MigrationFailed(Current("r1").version)
    /\ Current("r1").version \in VersionsOf(ledger)
    /\ Current("r1").version \in InsertedBy(call["r1"])

(***************************************************************************)
(* C7 as claimed. Run Result accuracy: at the end of every run_migrations  *)
(* call, whatever step failed, a version is in the result's                *)
(* applied_migrations list if and only if this run committed that          *)
(* version's ledger row.                                                   *)
(***************************************************************************)
C7_ResultAccurate ==
    \A r \in Runners :
        RunOver(r) =>
            Range(result[r].applied_migrations) = InsertedBy(call[r])

\* s is ascending in the order of Python's str
Ascending(s) ==
    \A i \in 1..(Len(s) - 1) : ~StrLess(s[i + 1], s[i])

\* The versions of p greater than the value of T
GreaterThan(p, T) ==
    {p[j].version : j \in {k \in 1..Len(p) : StrLess(T.value, p[k].version)}}

(***************************************************************************)
(* C8 as claimed. Target cutoff: in a call run_migrations(target_version = *)
(* T), no version greater than T is applied and the pending versions are   *)
(* attempted in ascending order; and when the call returns success = true, *)
(* every pending version less than or equal to T has been applied and      *)
(* skipped_migrations is exactly the set of pending versions greater than  *)
(* T.                                                                      *)
(***************************************************************************)
C8_TargetCutoff ==
    \A r \in Runners :
        (result[r].kind = "migrate" /\ target[r].given) =>
            /\ InsertedBy(call[r]) \cap GreaterThan(pending[r], target[r]) = {}
            /\ Ascending(Logged(r, "applying"))
            /\ (pc[r] = "done" /\ result[r].success) =>
                   /\ InsertedBy(call[r]) =
                          Range(VersionsIn(pending[r]))
                              \ GreaterThan(pending[r], target[r])
                   /\ Range(result[r].skipped_migrations) =
                          GreaterThan(pending[r], target[r])

\* The rows of a ledger whose version is not greater than the value of T
RowsUpTo(rows, T) ==
    LET UpTo(row) == ~StrLess(T.value, row.version)
    IN SelectSeq(rows, UpTo)

\* The rows of a ledger whose version is greater than the value of T
RowsBeyond(rows, T) ==
    {rows[i] : i \in {k \in 1..Len(rows) : StrLess(T.value, rows[k].version)}}

\* The versions rollback_migration has dealt with, in order: those it
\* rolled back and those it found no rollback script for
Attempted(r) == [k \in 1..Len(log[r]) |-> log[r][k].version]

(***************************************************************************)
(* C9. Rollback selection and order: rollback_migration(T) deals only with *)
(* ledger versions strictly greater than T, in strictly descending version *)
(* order; each rollback (the statements of its script, then the removal of *)
(* its ledger row) is committed as one transaction before the next begins; *)
(* and the ledger entries with version less than or equal to T are never   *)
(* changed.                                                                *)
(***************************************************************************)
C9_RollbackOrder ==
    \A r \in Runners :
        result[r].kind = "rollback" =>
            LET done == result[r].rolled_back_migrations
                committed == CommittedBy(call[r])
            IN  /\ \A k \in 1..Len(Attempted(r)) :
                       StrLess(target[r].value, Attempted(r)[k])
                /\ StrictlyAscending(
                       [k \in 1..Len(Attempted(r)) |->
                           Attempted(r)[Len(Attempted(r)) + 1 - k]])
                /\ Logged(r, "rolled_back") = VersionsIn([k \in 1..Len(committed) |->
                       committed[k].ops[Len(committed[k].ops)]])
                /\ \A k \in 1..Len(committed) :
                       \E row \in Range(before[r]) :
                           /\ row.version = Logged(r, "rolled_back")[k]
                           /\ committed[k].ops = FullRollback(row)
                /\ pc[r] \in {"rb_execute", "rb_commit"} =>
                       /\ \A k \in 1..Len(Attempted(r)) :
                              StrLess(Current(r).version, Attempted(r)[k])
                       /\ StrLess(target[r].value, Current(r).version)
                       /\ \A k \in 1..Len(tx[r]) :
                              tx[r][k] = FullRollback(Current(r))[k]
                /\ RowsUpTo(ledger, target[r]) = RowsUpTo(before[r], target[r])

\* A rollback to the oldest version has rolled back the two newer versions,
\* newest first, and the oldest is still in the ledger
C9_Witness ==
    /\ RollbackOver("r1") /\ result["r1"].success
    /\ target["r1"] = Target(V1)
    /\ result["r1"].rolled_back_migrations = << V3, V2 >>
    /\ VersionsOf(ledger) = {V1}
    /\ Len(CommittedBy(call["r1"])) = 2

(***************************************************************************)
(* C10. A missing rollback script is not fatal: a ledger version greater   *)
(* than T without a rollback script keeps its ledger entry, is not listed  *)
(* in rolled_back_migrations and does not make the call fail, and the call *)
(* goes on to every older version greater than T; so after                 *)
(* rollback_migration(T) returned success = true, the ledger entries with  *)
(* version greater than T are exactly those that had no rollback script.   *)
(***************************************************************************)
C10_MissingScript ==
    \A r \in Runners :
        result[r].kind = "rollback" =>
            LET missing == {row \in RowsBeyond(before[r], target[r]) :
                               RollbackFile(row) \notin files}
            IN  /\ \A v \in Range(Logged(r, "no_rollback_script")) :
                       /\ \E row \in missing : row.version = v
                       /\ v \notin Range(result[r].rolled_back_migrations)
                /\ missing \subseteq Range(ledger)
                /\ (pc[r] = "done" /\ ~result[r].success) =>
                       \/ pending[r] = << >>
                       \/ /\ idx[r] \in 1..Len(pending[r])
                          /\ RollbackFile(Current(r)) \in files
                /\ (pc[r] = "done" /\ result[r].success) =>
                       /\ Range(Attempted(r)) =
                              VersionsOf(before[r])
                                  \cap {row.version :
                                          row \in RowsBeyond(before[r], target[r])}
                       /\ RowsBeyond(ledger, target[r]) = missing

\* A rollback returned success = true after it found no rollback script for
\* the newest version and rolled back an older one: the newest version is
\* still in the ledger
C10_Witness ==
    /\ RollbackOver("r1") /\ result["r1"].success
    /\ Len(log["r1"]) = 2
    /\ log["r1"][1] = NoRollbackScript(V3)
    /\ log["r1"][2] = RolledBack(V2)
    /\ result["r1"].rolled_back_migrations = << V2 >>
    /\ V3 \in VersionsOf(ledger) /\ V2 \notin VersionsOf(ledger)

\* A rollback that failed at a statement of the rollback script of
\* pending[idx]
FailedAtRollbackStatement(r) ==
    /\ RollbackOver(r) /\ ~result[r].success
    /\ idx[r] \in 1..Len(pending[r])
    /\ stmt[r] < StatementCount(RollbackFile(Current(r)))

(***************************************************************************)
(* C11 as claimed. A rollback failure halts: when a statement of version   *)
(* v's rollback script raises, v's ledger entry is still there and nothing *)
(* of the attempt is committed, the rollbacks of higher versions this call *)
(* committed stay committed, no version lower than v is attempted, and the *)
(* result has success = false with an error naming v.                      *)
(***************************************************************************)
C11_RollbackHalts ==
    \A r \in Runners :
        FailedAtRollbackStatement(r) =>
            /\ tx[r] = << >>
            /\ Current(r) \in Range(ledger)
            /\ Len(CommittedBy(call[r])) = Len(Logged(r, "rolled_back"))
            /\ \A k \in 1..Len(Logged(r, "rolled_back")) :
                   Logged(r, "rolled_back")[k] \notin VersionsOf(ledger)
            /\ \A k \in 1..Len(Attempted(r)) :
                   StrLess(Current(r).version, Attempted(r)[k])
            /\ result[r].error = RollbackFailed(Current(r).version)

\* The file name is <8 digits>_<6 digits>_<description>.sql
MatchesConvention(f) ==
    /\ Len(f) >= 8 + 1 + 6 + 1 + Len(SqlExt)
    /\ IsDigit(SubSeq(f, 1, 8))
    /\ f[9] = "_"
    /\ IsDigit(SubSeq(f, 10, 15))
    /\ f[16] = "_"
    /\ EndsWith(f, SqlExt)

\* <version>_<description>.rollback.sql of the forward file name
\* <version>_<description>.sql
PairedRollbackName(f) == SubSeq(f, 1, Len(f) - Len(SqlExt)) \o RollbackExt

(***************************************************************************)
(* C12 as claimed. Rollback pairing round trip: for every forward file     *)
(* <version>_<description>.sql that was applied, the rollback file name    *)
(* that rollback_migration derives from the ledger row (version, name) is  *)
(* <version>_<description>.rollback.sql.                                   *)
(***************************************************************************)
C12_RollbackPairing ==
    \A e \in InsertingTransactions :
        LET f == e.ops[1].file
            ins == e.ops[Len(e.ops)]
        IN  (e.ops[1].op = "stmt" /\ MatchesConvention(f)) =>
                RollbackFile([version |-> ins.version, name |-> ins.name])
                    = PairedRollbackName(f)

\* The versions of the migration files of the directory
AvailableVersions(dir) == Range(VersionsIn(DiscoverMigrationFiles(dir)))

\* No drift: each ledger version has a backing migration file
NoDrift(rows, dir) == VersionsOf(rows) \subseteq AvailableVersions(dir)

\* get_migration_status has returned its dictionary to runner r
StatusReturned(r) == pc[r] = "done" /\ result[r].kind = "status"

(***************************************************************************)
(* C13 as claimed. Status consistency: for every ledger and every set of   *)
(* migration files in which each ledger version has a backing file,        *)
(* get_migration_status returns applied_count + pending_count =            *)
(* total_available.                                                        *)
(***************************************************************************)
C13_StatusConsistent ==
    \A r \in Runners :
        (StatusReturned(r) /\ NoDrift(ledger, files)) =>
            result[r].applied_count + result[r].pending_count
                = result[r].total_available

(***************************************************************************)
(* C14 as claimed. Drift is surfaced: when the ledger holds a version with *)
(* no migration file, get_migration_status counts that version in neither  *)
(* applied_count nor pending_count: applied_count is the number of ledger  *)
(* versions that have a file, and pending_count the number of files whose  *)
(* version is not in the ledger. (The dictionary the code returns has the  *)
(* five fields of StatusOf and none that lists drift.)                     *)
(***************************************************************************)
C14_DriftSurfaced ==
    \A r \in Runners :
        StatusReturned(r) =>
            /\ result[r].applied_count =
                   Cardinality(VersionsOf(ledger) \cap AvailableVersions(files))
            /\ result[r].pending_count =
                   Len(PendingMigrations(DiscoverMigrationFiles(files),
                                         VersionsOf(ledger)))

\* The operations of the transactions committed in this step
NewOperations ==
    UNION {Range(dbLog'[k].ops) : k \in (Len(dbLog) + 1)..Len(dbLog')}

\* The sequence a is the beginning of the sequence b
PrefixOf(a, b) == Len(a) <= Len(b) /\ SubSeq(b, 1, Len(a)) = a

(***************************************************************************)
(* C15. Ledger write frame: a step that leaves get_migration_status's      *)
(* result commits nothing (no ledger entry inserted or deleted, no         *)
(* statement executed); a step of run_migrations only adds ledger entries  *)
(* (it commits no delete, and the ledger during and after the run begins   *)
(* with the ledger before it); a step of rollback_migration only removes   *)
(* ledger entries (it commits no insert).                                  *)
(***************************************************************************)
C15_LedgerFrame ==
    [][\A r \in Runners :
          /\ result'[r].kind \in {"status", "status_error"} =>
                 ledger' = ledger /\ dbLog' = dbLog
          /\ result'[r].kind = "migrate" =>
                 /\ PrefixOf(ledger, ledger')
                 /\ PrefixOf(before'[r], ledger')
                 /\ \A o \in NewOperations : o.op # "delete"
          /\ result'[r].kind = "rollback" =>
                 /\ Range(ledger') \subseteq Range(ledger)
                 /\ Range(ledger') \subseteq Range(before'[r])
                 /\ \A o \in NewOperations : o.op # "insert"]_vars

\* get_migration_status has returned after a run that applied migrations
\* and a rollback that removed one: the ledger is as the rollback left it
C15_Witness ==
    /\ StatusReturned("r1")
    /\ calls = 2
    /\ \E e \in Range(dbLog) : e.call = 1 /\ e.ops[Len(e.ops)].op = "insert"
    /\ \E e \in Range(dbLog) : e.call = 2 /\ e.ops[Len(e.ops)].op = "delete"
    /\ result["r1"].applied_count = Len(ledger)
    /\ Len(ledger) >= 1
    /\ result["r1"].pending_count >= 1

\* The file paths of the Migration records of a list
PathsIn(p) == [j \in 1..Len(p) |-> p[j].file_path]

(***************************************************************************)
(* C16 as claimed. Forward discovery: for every set of file names in the   *)
(* migrations directory, _discover_migration_files returns exactly one     *)
(* Migration for each file named <8 digits>_<6 digits>_<description>.sql   *)
(* that does not end in .rollback.sql, and nothing else.                   *)
(***************************************************************************)
C16_Discovery ==
    LET found == DiscoverMigrationFiles(files)
    IN  /\ Range(PathsIn(found)) =
               {f \in files : MatchesConvention(f) /\ ~EndsWith(f, RollbackExt)}
        /\ Cardinality(Range(PathsIn(found))) = Len(found)

(***************************************************************************)
(* C17 as claimed. Exactly one marker per invocation: when an invocation   *)
(* of the wrapper's migrate command has exited, it has written exactly one *)
(* of the success marker and the failure marker.                           *)
(***************************************************************************)
C17_OneMarker ==
    wpc = "exited" => Cardinality(written) = 1

(***************************************************************************)
(* C18 as claimed. Marker exclusivity over time: after any sequence of     *)
(* invocations, the success marker and the failure marker never both       *)
(* exist, and after an invocation that wrote its marker has exited, the    *)
(* marker present is the one that invocation wrote.                        *)
(***************************************************************************)
C18_MarkerExclusive ==
    /\ Cardinality(markers) <= 1
    /\ (wpc = "exited" /\ written # {}) => markers = written

(***************************************************************************)
(* C19 as claimed. An absent marker means failure: a call of               *)
(* check_migration_status made while neither marker exists returns False,  *)
(* whatever the state of the database.                                     *)
(***************************************************************************)
C19_AbsentMarkerFails ==
    [][(healthChecks' # healthChecks /\ markers = {}) => health' = "fail"]_vars

\* run_container_migrations has returned
Returned == wpc = "returned" \/ (wpc = "exited" /\ outcomes # << >>)

(***************************************************************************)
(* C20. Bounded retry: run_container_migrations makes at most              *)
(* MIGRATION_RETRY_COUNT attempts and calls of run_migrations; it returns  *)
(* True at the first attempt whose result has success = true and makes no  *)
(* further attempt; it returns False exactly when every one of its         *)
(* MIGRATION_RETRY_COUNT attempts ended with a success = false result or   *)
(* an exception; and it sleeps once after each attempt but the last, never *)
(* after the last one.                                                     *)
(***************************************************************************)
C20_BoundedRetry ==
    /\ attempt <= MIGRATION_RETRY_COUNT
    /\ Len(outcomes) <= attempt
    /\ calls <= invocations * MIGRATION_RETRY_COUNT
    /\ \A k \in 1..Len(outcomes) :
           outcomes[k] = "success" => (k = Len(outcomes) /\ Returned /\ success)
    /\ wpc = "sleep" =>
           /\ attempt < MIGRATION_RETRY_COUNT
           /\ Len(outcomes) = attempt
           /\ sleeps = attempt
    /\ wpc \in {"attempt", "running"} =>
           Len(outcomes) = attempt - 1 /\ sleeps = attempt - 1
    /\ Returned =>
           /\ Len(outcomes) = attempt
           /\ sleeps = attempt - 1
           /\ success <=> outcomes[attempt] = "success"
           /\ ~success => attempt = MIGRATION_RETRY_COUNT

\* run_container_migrations returned True at its third attempt, after a
\* run with success = false and an attempt that raised, and slept twice
C20_Witness ==
    /\ wpc = "returned"
    /\ success
    /\ outcomes = << "failed", "exception", "success" >>
    /\ sleeps = 2
    /\ calls = 2

(***************************************************************************)
(* C21 as claimed. Only connectivity failures are retried: after an        *)
(* attempt whose run_migrations failed because a migration raised, the     *)
(* wrapper makes no further call of run_migrations in that invocation.     *)
(***************************************************************************)
C21_NoRetryOfStatementFailure ==
    \A k \in 1..Len(outcomes) :
        outcomes[k] = "migration_failed" => ~(wpc = "running" /\ attempt > k)

\* Every probe of probeLog up to the n-th failed
AllFailed(n) == \A i \in 1..n : ~probeLog[i]

\* wait_for_database_ready is being executed, has returned True, has
\* returned False
Probing == wpc = "cli_wait"

ReturnedTrue == ~Probing /\ probeLog # << >> /\ probeLog[Len(probeLog)]

ReturnedFalse == ~Probing /\ probeLog # << >> /\ ~probeLog[Len(probeLog)]

\* What C22 says of the probes made so far
ProbesAsClaimed ==
    LET n == Len(probeLog)
        limit == ReadinessLimit(command)
    IN /\ n <= limit
       /\ AllFailed(n - 1)
       /\ Probing => AllFailed(n) /\ n < limit /\ waitAttempt = n + 1
       /\ ReturnedFalse => n = limit
       /\ (command.name = "wait" /\ wpc = "exited") =>
              /\ ReturnedTrue <=> exitCode = 0
              /\ ReturnedFalse <=> exitCode = 1
       /\ (command.program = "container_migrate.py"
              /\ wpc \in {"cli_call", "cli_running"}) => ReturnedTrue

(***************************************************************************)
(* C22. Readiness poll: wait_for_database_ready(max_attempts, delay)       *)
(* probes the database one attempt at a time; when the k-th probe is the   *)
(* first to succeed, with k <= max_attempts, it returns True after exactly *)
(* k probes and makes no further probe; when every probe fails it returns  *)
(* False after exactly max_attempts probes; and it always terminates.      *)
(***************************************************************************)
C22_ReadinessPoll ==
    /\ []ProbesAsClaimed
    /\ Probing ~> ~Probing

\* The command wait exited with 0 after two failed probes and a third one
\* that succeeded
C22_Witness ==
    /\ command.name = "wait"
    /\ wpc = "exited"
    /\ exitCode = 0
    /\ probeLog = << FALSE, FALSE, TRUE >>

\* The operation of the command succeeded: every step of it was carried
\* out. An unknown command has no operation to succeed in.
OperationSucceeded ==
    CASE command.name = "unknown" -> FALSE
      [] command.name = "wait" -> ReturnedTrue
      [] command = ContainerMigrate -> success /\ written # {}
      [] OTHER -> Succeeded(result["r1"])

RejectedByArgparse ==
    command.name = "unknown" /\ command.program # "container_migrate.py"

CommittedByScript ==
    LET ByScript(e) == e.call = scripts
    IN SelectSeq(dbLog, ByScript)

ApplyingMigration(r) == pc[r] \in {"execute", "commit"}

\* The ledger holds an entry with a version greater than v
LedgerBeyond(v) == \E i \in 1..Len(ledger) : StrLess(v, ledger[i].version)

(***************************************************************************)
(* C25 as claimed. No out-of-order application across runs: over any       *)
(* sequence of run_migrations calls between which migration files may be   *)
(* added, a migration with version v is never applied while the ledger     *)
(* already holds an entry with a version greater than v.                   *)
(***************************************************************************)
C25_NoOutOfOrder ==
    ApplyingMigration("r1") => ~LedgerBeyond(Current("r1").version)

\* No two records of the sequence d have the same version
DistinctVersions(d) ==
    \A i, j \in 1..Len(d) : i # j => d[i].version # d[j].version

(***************************************************************************)
(* C26 as claimed. Version uniqueness in discovery: for every set of file  *)
(* names in the migrations directory, no two Migration records returned by *)
(* _discover_migration_files have the same version.                        *)
(***************************************************************************)
C26_VersionsUnique ==
    ApplyingMigration("r1") =>
        DistinctVersions(DiscoverMigrationFiles(files))

\* Runners r and o have read the same pending list and have both executed
\* a statement of the same migration of it
BothExecute(r, o) ==
    /\ pc[r] = "execute"
    /\ pc[o] = "execute"
    /\ pending[r] = pending[o]
    /\ idx[r] = idx[o]
    /\ stmt[r] >= 1
    /\ stmt[o] >= 1

(***************************************************************************)
(* C27. Concurrent runners are not mutually excluded: a runner that is not *)
(* inside a call can start run_migrations whatever the other runner is     *)
(* doing, so there is an interleaving in which both read the same pending  *)
(* set and both execute the statements of the same pending migration.      *)
(***************************************************************************)
C27_NotExcluded ==
    \A r \in Runners :
        (Idle(r) /\ calls < CallLimit) => ENABLED RunMigrations(r, NoTarget)

\* Both runners are inside _execute_migration of the first pending
\* migration, and each has executed its first statement
C27_Witness ==
    /\ BothExecute("r1", "r2")
    /\ idx["r1"] = 1
    /\ ledger = << >>

\* get_migration_status would report pending_count = 0
UpToDate == StatusOf(ledger, files).pending_count = 0

\* run_migrations() without a target has returned success = true to its
\* caller
SucceededWithoutTarget(r) ==
    RunOver(r) /\ ~target[r].given /\ result[r].success

(***************************************************************************)
(* C28. Success means up to date: whenever run_migrations() with no target *)
(* returns success = true, every discovered migration version has a ledger *)
(* entry, so that get_migration_status reports pending_count = 0; and a    *)
(* wrapper migrate invocation that has written the success marker leaves   *)
(* no pending migration.                                                   *)
(***************************************************************************)
C28_SuccessUpToDate ==
    /\ SucceededWithoutTarget("r1") => UpToDate
    /\ (wpc = "exited" /\ "migration_success" \in written) => UpToDate

\* The wrapper has written the success marker after an attempt in which a
\* migration failed and a second one that applied what was left
C28_Witness ==
    /\ wpc = "exited"
    /\ written = {"migration_success"}
    /\ outcomes = << "migration_failed", "success" >>
    /\ Len(ledger) = 3

\* The committed transactions, by their position in dbLog, that hold the
\* ledger row of version v
CommitsOf(v) ==
    {i \in 1..Len(dbLog) :
        \E k \in 1..Len(dbLog[i].ops) :
            dbLog[i].ops[k].op = "insert" /\ dbLog[i].ops[k].version = v}

\* The versions with a committed ledger row
CommittedVersions ==
    UNION { {e.ops[k].version :
                k \in {i \in 1..Len(e.ops) : e.ops[i].op = "insert"}} :
            e \in Range(dbLog) }

(***************************************************************************)
(* C29. At-most-once application under retry: across the retry attempts of *)
(* one wrapper invocation and across repeated invocations, each migration  *)
(* version is committed at most once, and a version committed in an        *)
(* earlier attempt is not executed again by a later attempt.               *)
(***************************************************************************)
C29_AtMostOnce ==
    /\ \A v \in CommittedVersions : Cardinality(CommitsOf(v)) = 1
    /\ ApplyingMigration("r1") =>
           \A i \in CommitsOf(Current("r1").version) :
               dbLog[i].call = call["r1"]

\* The second attempt of an invocation executes the second migration; the
\* first one was committed in the first attempt, which failed
C29_Witness ==
    /\ wpc = "running"
    /\ attempt = 2
    /\ outcomes = << "migration_failed" >>
    /\ CommittedVersions = {V1}
    /\ pc["r1"] = "execute"
    /\ stmt["r1"] >= 1
    /\ Current("r1").version = V2

\* The pending list the next run_migrations() computes when nothing
\* changes before it
NextPending ==
    PendingMigrations(DiscoverMigrationFiles(files), VersionsOf(ledger))

\* Nothing was pending when the call of runner r started
UpToDateBefore(r) == StatusOf(before[r], files).pending_count = 0

(***************************************************************************)
(* C30 as claimed. Rollback then migrate round-trip: when                  *)
(* rollback_migration(T), called on a database with nothing pending,       *)
(* returns rolled_back_migrations = R and the migration files are          *)
(* unchanged, the next run_migrations() has exactly the versions in R as   *)
(* its pending set.                                                        *)
(***************************************************************************)
C30_RoundTrip ==
    (RollbackOver("r1") /\ UpToDateBefore("r1")) =>
        Range(VersionsIn(NextPending))
            = Range(result["r1"].rolled_back_migrations)

====
